---- MODULE Spec2Model ----
(***************************************************************************)
(* Chunked world storage of spellcoder (src/src/main.rs): Pixel, Chunk and *)
(* World, the lazy chunk generation behind World::get_chunk, and the      *)
(* deferred sort_chunks.                                                   *)
(*                                                                         *)
(* Vec indices are 0-based in the source.  A Vec is a TLA+ sequence here,  *)
(* so the element at source index i is s[i + 1]; every index the model     *)
(* names (row, col, the Ok/Err payload of a binary search) is the source's *)
(* 0-based index.                                                          *)
(***************************************************************************)
EXTENDS Integers, Sequences, FiniteSets, TLC

(***************************************************************************)
(* Bounds of the model.                                                    *)
(***************************************************************************)
\* chunk x coordinates the callers use are -1 .. MaxChunkX
MaxChunkX == 1
\* calls that would store more than MaxChunks chunks are not taken
MaxChunks == 3
\* World::new draws a random u64 seed; the model draws it from 0 .. MaxSeed
MaxSeed == 0
\* Chunk-level specification: a column never grows beyond MaxColLen pixels
MaxColLen == 2
\* screen widths passed to get_visible_chunks are at most MaxScreen
MaxScreen == 130
\* SpecSpell: main's loop runs MaxFrames frames
MaxFrames == 3
\* the window is InitWidth x InitHeight when main starts
InitWidth == 64
InitHeight == 64

(***************************************************************************)
(* Program constants.                                                      *)
(***************************************************************************)
\* the literal 16 of Chunk::new / Chunk::generate: columns and rows of a chunk
CHUNK_SIZE == 16

\* const SCALE: screen units per pixel
SCALE == 4

ChunkXs == -1 .. MaxChunkX
ChunkYs == {-1, 0}
Seeds == 0 .. MaxSeed
PixelMaterial == {"AIR", "BLOCK"}

\* ffi::Color
Color(r, g, b, a) == [r |-> r, g |-> g, b |-> b, a |-> a]

\* struct Pixel
Pixel(x, y, material, color) ==
    [x |-> x, y |-> y, material |-> material, color |-> color]

(***************************************************************************)
(* Integer conversions of the source.                                      *)
(***************************************************************************)
\* Rust's a % 16 on i64: the remainder has the sign of the dividend
RemI64(a) == IF a >= 0 THEN a % CHUNK_SIZE ELSE -((-a) % CHUNK_SIZE)

\* `v as u8` for an integer v: the low 8 bits
AsU8(v) == v % 256

\* `v as u8` for a float v that is an integer here: saturating
FloatAsU8(v) == IF v < 0 THEN 0 ELSE IF v > 255 THEN 255 ELSE v

\* mutant of AsUsizeMod16: the remainder of the magnitude of x
AsUsizeMod16_abs(x) == (IF x >= 0 THEN x ELSE -x) % CHUNK_SIZE

\* `(x as usize) % 16`: x as usize is x mod 2^64, and 16 divides 2^64, so the
\* result is x mod 16 with a non-negative result (TLA+ % is the floor modulus)
AsUsizeMod16(x) == x % CHUNK_SIZE

\* mutant of Shr4: x / 16, which rounds toward zero
Shr4_truncating(x) ==
    IF x >= 0 THEN x \div CHUNK_SIZE ELSE -((-x) \div CHUNK_SIZE)

\* x >> 4 on i64 is an arithmetic shift: floor(x / 16)
Shr4(x) == x \div CHUNK_SIZE

(***************************************************************************)
(* worldgen's PerlinNoise::generate(x, y, seed) is an external crate.  It  *)
(* is a deterministic function of its three arguments; the model takes a   *)
(* fixed function of them whose values are multiples of 16/256 in [-1, 1], *)
(* given in units of 1/256, and 0 at the origin.  The sample point         *)
(* (wx / dx, wy / dy) is passed as numerators and divisors, dx one of 320, *)
(* 96, 32 and dy one of 128, 32 as in Chunk::generate; the value depends   *)
(* on the quotients alone (x in units of 1/960, y in units of 1/128), so   *)
(* two calls with equal arguments return one value.  The value 64          *)
(* (= 64.0 / 256.0, in no band of the three guarded arms) is among the     *)
(* values.                                                                 *)
(***************************************************************************)
noise_generate(wx, dx, wy, dy, seed) ==
    LET px == (wx * 960) \div dx
        py == (wy * 128) \div dy
    IN  (((px + py * 7 + seed * 11 + 16) % 33) * 16) - 256

\* interpolation::Ease::cubic_out on p = k/16: clamp to [0, 1], then
\* (p - 1)^3 + 1.  Result in units of 1/4096 (exact).
cubic_out16(k) ==
    LET p == IF k < 0 THEN 0 ELSE IF k > 16 THEN 16 ELSE k
        f == p - 16
    IN  f * f * f + 4096

\* cubic_out on p = a/4096: 1 - u^3 / 2^36 with u = 4096 - p, which f64 holds
\* exactly (36 bits).  The result is <<hi, lo>>, the value (hi * 2^18 + lo) / 2^36
\* with 0 <= lo < 2^18.
cubic_out4096(a) ==
    LET p == IF a < 0 THEN 0 ELSE IF a > 4096 THEN 4096 ELSE a
        u == 4096 - p
        u2 == u * u
        a1 == (u2 \div 4096) * u
        a0 == (u2 % 4096) * u
        low == (a1 % 64) * 4096 + a0
        h == a1 \div 64 + low \div 262144
        l == low % 262144
    IN  IF l = 0 THEN <<262144 - h, 0>> ELSE <<262144 - h - 1, 262144 - l>>

\* (gval * 200.0 * c).clamp(0.0, 255.0) as u8 for gval = g/256 and c = <<hi, lo>>:
\* the product g * 25/32 * c is exact in f64 (49 bits), the cast rounds down
alpha(g, c) ==
    IF g <= 0 THEN 0
    ELSE FloatAsU8((25 * g * c[1] + (25 * g * c[2]) \div 262144) \div 8388608)

(***************************************************************************)
(* A `let` of the source whose value is read more than once is a bound     *)
(* variable of a one-element set, and The the value built from it: the     *)
(* call that computes it is then made once, as in the source.              *)
(***************************************************************************)
The(S) == CHOOSE v \in S : TRUE

(***************************************************************************)
(* slice::sort_by is a stable sort, so its result is determined by the     *)
(* keys: the elements in ascending key order, equal keys in their original *)
(* order.  SortBy builds that sequence by stable insertion.                *)
(***************************************************************************)
InsertBy(t, i, keys) ==
    LET n == Cardinality({j \in 1 .. Len(t) : keys[t[j]] <= keys[i]})
    IN  SubSeq(t, 1, n) \o <<i>> \o SubSeq(t, n + 1, Len(t))

\* s in the order sort_by leaves it, keys[i] being the key of s[i]
SortBy(s, keys) ==
    LET ins[i \in 0 .. Len(s)] ==
            IF i = 0 THEN <<>> ELSE InsertBy(ins[i - 1], i, keys)
        order == ins[Len(s)]
    IN  [j \in 1 .. Len(s) |-> s[order[j]]]

(***************************************************************************)
(* slice::binary_search_by of the standard library, on the sequence of the *)
(* keys the closure compares with `target`:                                *)
(*     let mut size = self.len();  if size == 0 { return Err(0); }         *)
(*     let mut base = 0;                                                   *)
(*     while size > 1 { let half = size / 2; let mid = base + half;        *)
(*         base = if f(mid) == Greater { base } else { mid };              *)
(*         size -= half; }                                                 *)
(*     let cmp = f(base);                                                  *)
(*     if cmp == Equal { Ok(base) } else { Err(base + (cmp == Less)) }     *)
(* The loop reads whatever the slice holds: on a slice that is not sorted  *)
(* it still ends, with a result that need not find a key that is there.    *)
(***************************************************************************)
Ok(i) == [ok |-> TRUE, i |-> i]
Err(i) == [ok |-> FALSE, i |-> i]

binary_search_by(keys, target) ==
    LET cmp(i) == IF keys[i + 1] < target THEN "Less"
                  ELSE IF keys[i + 1] = target THEN "Equal"
                  ELSE "Greater"
        RECURSIVE loop(_, _)
        loop(base, size) ==
            IF size > 1
            THEN LET half == size \div 2
                     mid == base + half
                 IN  loop(IF cmp(mid) = "Greater" THEN base ELSE mid, size - half)
            ELSE base
    IN  IF Len(keys) = 0
        THEN Err(0)
        ELSE LET base == loop(0, Len(keys))
                 c == cmp(base)
             IN  IF c = "Equal"
                 THEN Ok(base)
                 ELSE Err(base + (IF c = "Less" THEN 1 ELSE 0))

(***************************************************************************)
(* impl Chunk                                                              *)
(***************************************************************************)
\* Chunk::new: 16 empty columns
Chunk_new(x, y) ==
    [pixels |-> [i \in 1 .. CHUNK_SIZE |-> <<>>], x |-> x, y |-> y]

\* Pixel::compare_by_y orders pixels by their y: the y keys of a column, as
\* the closures of add_pixel / get_pixel / set_pixel read them
compare_by_y(column) == [i \in 1 .. Len(column) |-> column[i].y]

\* mutant of Chunk_add_pixel: the push without the sort
Chunk_add_pixel_unsorted(self, pixel) ==
    [self EXCEPT !.pixels[pixel.x + 1] = Append(@, pixel)]

\* Chunk::add_pixel: push to column pixel.x, then sort that column by y
Chunk_add_pixel(self, pixel) ==
    [self EXCEPT !.pixels[pixel.x + 1] = SortBy(Append(@, pixel), compare_by_y(Append(@, pixel)))]

\* mutant of Chunk_get_pixel: the closure compares a.x instead of a.y
Chunk_get_pixel_key_x(self, x, y) ==
    LET column == self.pixels[x + 1]
        r == binary_search_by([i \in 1 .. Len(column) |-> column[i].x], AsU8(y))
    IN  IF r.ok
        THEN [ok |-> TRUE, i |-> r.i, pixel |-> column[r.i + 1]]
        ELSE [ok |-> FALSE, i |-> r.i, pixel |-> Pixel(0, 0, "AIR", Color(0, 0, 0, 0))]

\* Chunk::get_pixel: Ok(i) carries the pixel found, Err(i) the index
Chunk_get_pixel(self, x, y) ==
    The({IF r.ok
         THEN [ok |-> TRUE, i |-> r.i, pixel |-> self.pixels[x + 1][r.i + 1]]
         ELSE [ok |-> FALSE, i |-> r.i, pixel |-> Pixel(0, 0, "AIR", Color(0, 0, 0, 0))] :
         r \in {binary_search_by(compare_by_y(self.pixels[x + 1]), AsU8(y))}})

\* mutant of Chunk_set_pixel: no search, always add_pixel
Chunk_set_pixel_always_add(self, pixel) ==
    [self EXCEPT !.pixels[pixel.x + 1] = SortBy(Append(@, pixel), compare_by_y(Append(@, pixel)))]

\* mutant of Chunk_set_pixel: the search is for pixel.x instead of pixel.y
Chunk_set_pixel_key_x(self, pixel) ==
    LET column == self.pixels[pixel.x + 1]
        r == binary_search_by([i \in 1 .. Len(column) |-> column[i].y], AsU8(pixel.x))
    IN  IF r.ok
        THEN [self EXCEPT !.pixels[pixel.x + 1][r.i + 1] = pixel]
        ELSE [self EXCEPT !.pixels[pixel.x + 1] = SortBy(Append(@, pixel), compare_by_y(Append(@, pixel)))]

\* mutant of Chunk_set_pixel: the pixel found is overwritten one index late
Chunk_set_pixel_off_by_one(self, pixel) ==
    LET r == binary_search_by(compare_by_y(self.pixels[pixel.x + 1]), AsU8(pixel.y))
    IN  IF r.ok
        THEN [self EXCEPT !.pixels[pixel.x + 1][r.i + 2] = pixel]
        ELSE [self EXCEPT !.pixels[pixel.x + 1] = SortBy(Append(@, pixel), compare_by_y(Append(@, pixel)))]

\* Chunk::set_pixel: overwrite the pixel found, else add_pixel
Chunk_set_pixel(self, pixel) ==
    The({IF r.ok
         THEN [self EXCEPT !.pixels[pixel.x + 1][r.i + 1] = pixel]
         ELSE Chunk_add_pixel(self, pixel) :
         r \in {binary_search_by(compare_by_y(self.pixels[pixel.x + 1]), AsU8(pixel.y))}})

\* the pixel Chunk::generate adds for local (x, y): the four arms of the match
generate_pixel(chunk_x, chunk_y, x, y, seed) ==
    LET wx == x + chunk_x * 16
        wy == y + chunk_y * 16
        val == noise_generate(wx, 320, wy, 128, seed)
        g32 == noise_generate(wx, 32, wy, 32, seed)
        g96 == noise_generate(wx, 96, wy, 32, seed)
    IN  IF val > 80
        THEN LET gval == FloatAsU8((g32 * 16) \div 256 + 128)
             IN  Pixel(AsU8(x), AsU8(y), "BLOCK", Color(gval, gval, gval, 255))
        ELSE IF val > 64
        THEN LET gval == FloatAsU8((g32 * 32) \div 256 + 128)
             IN  Pixel(AsU8(x), AsU8(y), "BLOCK", Color(0, gval, 0, 255))
        ELSE IF val < 64
        THEN LET c == cubic_out4096(cubic_out16((64 - val) \div 16))
             IN  Pixel(AsU8(x), AsU8(y), "AIR", Color(255, 255, 255, alpha(g96, c)))
        ELSE Pixel(AsU8(x), AsU8(y), "AIR", Color(0, 0, 0, 0))

\* Chunk::generate: for x in 0..16 { for y in 0..16 { chunk.add_pixel(..) } } on
\* Chunk::new(chunk_x * 16, chunk_y * 16).  add_pixel reads and writes column
\* pixel.x alone, so pass x of the outer loop leaves in column x what the 16
\* add_pixel calls of that pass leave there on a chunk whose column x is
\* empty, and leaves the other columns as they are: column(x) runs the inner
\* loop of pass x and the chunk is assembled from the 16 passes.
Chunk_generate(chunk_x, chunk_y, seed) ==
    LET new == Chunk_new(chunk_x * 16, chunk_y * 16)
        column(x) ==
            LET ys[j \in 0 .. CHUNK_SIZE] ==
                    IF j = 0 THEN new
                    ELSE Chunk_add_pixel(ys[j - 1],
                             generate_pixel(chunk_x, chunk_y, x, j - 1, seed))
            IN  ys[CHUNK_SIZE].pixels[x + 1]
    IN  [new EXCEPT !.pixels = [i \in 1 .. CHUNK_SIZE |-> column(i - 1)]]

\* Chunk::generate is a pure function of its arguments: its value for every
\* seed and chunk coordinate the callers use is computed once and kept (the
\* `@@ <<>>` makes the table an explicit function), and read from there.
generated ==
    [k \in Seeds \X (-2 .. MaxChunkX + 1) \X (-2 .. 4) |->
        Chunk_generate(k[2], k[3], k[1])] @@ <<>>

Generate(chunk_x, chunk_y, seed) ==
    IF <<seed, chunk_x, chunk_y>> \in DOMAIN generated
    THEN generated[<<seed, chunk_x, chunk_y>>]
    ELSE Chunk_generate(chunk_x, chunk_y, seed)

(***************************************************************************)
(* impl World.  A World value is [chunks, seed, modified]; the noise       *)
(* object and the rng hold no state the methods below read.                *)
(***************************************************************************)
World_new(seed) == [chunks |-> <<>>, seed |-> seed, modified |-> FALSE]

\* the keys the row search compares: r[0].y of every row
RowKeys(chunks) == [i \in 1 .. Len(chunks) |-> chunks[i][1].y]

\* the keys the column search compares: c.x of every chunk of the row
ChunkKeys(row) == [i \in 1 .. Len(row) |-> row[i].x]

\* mutant of generate_chunk: the row is pushed, the function returns before
\* the chunk is pushed when the row was not found
generate_chunk_row_only(self, chunk_x, chunk_y) ==
    LET rs == binary_search_by(RowKeys(self.chunks), chunk_y)
    IN  IF rs.ok
        THEN [world |-> [self EXCEPT !.chunks[rs.i + 1] =
                            Append(@, Generate(chunk_x, chunk_y, self.seed)),
                                     !.modified = TRUE],
              row |-> rs.i, col |-> Len(self.chunks[rs.i + 1])]
        ELSE [world |-> [self EXCEPT !.chunks = Append(@, <<>>), !.modified = TRUE],
              row |-> Len(self.chunks), col |-> 0]

\* World::generate_chunk: the row search compares r[0].y, a world coordinate
\* (chunk y * 16), with chunk_y itself; the chunk is pushed to the row found,
\* or to a new last row, whatever that row holds.  row, col: where it went.
generate_chunk(self, chunk_x, chunk_y) ==
    LET rs == binary_search_by(RowKeys(self.chunks), chunk_y)
        row == IF rs.ok THEN rs.i ELSE Len(self.chunks)
        chunks1 == IF rs.ok THEN self.chunks ELSE Append(self.chunks, <<>>)
    IN  [world |-> [self EXCEPT !.chunks = [chunks1 EXCEPT ![row + 1] =
                                    Append(@, Generate(chunk_x, chunk_y, self.seed))],
                                !.modified = TRUE],
         row |-> row, col |-> Len(chunks1[row + 1])]

\* mutant of get_chunk: a miss generates with a seed that moves on with the
\* rows stored so far, as a seed drawn from self.rng for each chunk would
get_chunk_reseeds(self, x, y) ==
    LET rs == binary_search_by(RowKeys(self.chunks), y * 16)
        row == IF rs.ok THEN rs.i ELSE Len(self.chunks)
        chunks1 == IF rs.ok THEN self.chunks ELSE Append(self.chunks, <<>>)
        cs == binary_search_by(ChunkKeys(chunks1[row + 1]), x * 16)
        col == IF cs.ok THEN cs.i ELSE Len(chunks1[row + 1])
        chunks2 == IF cs.ok THEN chunks1
                   ELSE [chunks1 EXCEPT ![row + 1] =
                            Append(@, Generate(x, y, self.seed + Len(self.chunks)))]
    IN  [world |-> [self EXCEPT !.chunks = chunks2,
                                !.modified = IF cs.ok THEN @ ELSE TRUE],
         row |-> row, col |-> col]

\* mutant of get_chunk: a miss does not set modified
get_chunk_no_flag(self, x, y) ==
    LET rs == binary_search_by(RowKeys(self.chunks), y * 16)
        row == IF rs.ok THEN rs.i ELSE Len(self.chunks)
        chunks1 == IF rs.ok THEN self.chunks ELSE Append(self.chunks, <<>>)
        cs == binary_search_by(ChunkKeys(chunks1[row + 1]), x * 16)
        col == IF cs.ok THEN cs.i ELSE Len(chunks1[row + 1])
        chunks2 == IF cs.ok THEN chunks1
                   ELSE [chunks1 EXCEPT ![row + 1] =
                            Append(@, Generate(x, y, self.seed))]
    IN  [world |-> [self EXCEPT !.chunks = chunks2], row |-> row, col |-> col]

\* World::get_chunk: the World after the call and the indices of the chunk
\* the returned reference points at
get_chunk(self, x, y) ==
    The(UNION {UNION {
        {[world |-> [self EXCEPT
                        !.chunks = IF cs.ok THEN chunks1
                                   ELSE [chunks1 EXCEPT ![row + 1] =
                                            Append(@, Generate(x, y, self.seed))],
                        !.modified = IF cs.ok THEN @ ELSE TRUE],
          row |-> row,
          col |-> IF cs.ok THEN cs.i ELSE Len(chunks1[row + 1])] :
            cs \in {binary_search_by(ChunkKeys(chunks1[row + 1]), x * 16)}} :
            row \in {IF rs.ok THEN rs.i ELSE Len(self.chunks)},
            chunks1 \in {IF rs.ok THEN self.chunks ELSE Append(self.chunks, <<>>)}} :
            rs \in {binary_search_by(RowKeys(self.chunks), y * 16)}})

\* mutant of World_get_pixel: the Err arm returns a default pixel
World_get_pixel_default(self, x, y) ==
    LET g == get_chunk(self, Shr4(x), Shr4(y))
        chunk == g.world.chunks[g.row + 1][g.col + 1]
        r == Chunk_get_pixel(chunk, AsUsizeMod16(x), AsUsizeMod16(y))
    IN  [world |-> g.world, row |-> g.row, col |-> g.col,
         ok |-> TRUE,
         pixel |-> IF r.ok THEN r.pixel ELSE Pixel(0, 0, "AIR", Color(0, 0, 0, 0))]

\* World::get_pixel: ok = FALSE is the panic "pixel not found! (how?)", after
\* which nothing is returned (the pixel field then carries no value of the
\* program)
World_get_pixel(self, x, y) ==
    The(UNION {
        {[world |-> g.world, row |-> g.row, col |-> g.col,
          ok |-> r.ok, pixel |-> r.pixel] :
            r \in {Chunk_get_pixel(g.world.chunks[g.row + 1][g.col + 1],
                                   AsUsizeMod16(x), AsUsizeMod16(y))}} :
            g \in {get_chunk(self, Shr4(x), Shr4(y))}})

\* World::set_pixel
World_set_pixel(self, x, y, pixel) ==
    The({[world |-> [g.world EXCEPT !.chunks[g.row + 1][g.col + 1] =
                        Chunk_set_pixel(@, pixel)],
          row |-> g.row, col |-> g.col] :
            g \in {get_chunk(self, Shr4(x), Shr4(y))}})

\* mutant of sort_chunks: the rows are sorted, the chunks inside a row are not
sort_chunks_rows_only(self) ==
    [self EXCEPT !.chunks = SortBy(self.chunks, RowKeys(self.chunks)), !.modified = FALSE]

\* World::sort_chunks
sort_chunks(self) ==
    LET rows == SortBy(self.chunks, RowKeys(self.chunks))
    IN  [self EXCEPT !.chunks = [i \in 1 .. Len(rows) |-> SortBy(rows[i], ChunkKeys(rows[i]))],
                     !.modified = FALSE]

\* mutant of frame_end: the test of the flag is inverted
frame_end_inverted(self) == IF ~self.modified THEN sort_chunks(self) ELSE self

\* the end of a frame of main's loop: if world.modified { world.sort_chunks(); }
\* (the statements after it in the frame do not touch the World)
frame_end(self) == IF self.modified THEN sort_chunks(self) ELSE self

\* mutant of spell_local: the second arm returns 256 - b, the magnitude of
\* the negative remainder
spell_local_magnitude(v) ==
    LET a == AsU8(RemI64(v))
    IN  IF a < 16 THEN a ELSE IF a > 240 THEN 256 - a ELSE 256

\* the local coordinate Player::activate_spell puts in the Pixel it passes to
\* World::set_pixel for the world coordinate v; 255 + 1 marks the panic arm
spell_local(v) ==
    LET a == AsU8(RemI64(v))
    IN  IF a < 16 THEN a ELSE IF a > 240 THEN a - 240 ELSE 256

Range(lo, hi) == [lo |-> lo, hi |-> hi]

\* the i64 values a Range iterates over
RangeSet(r) == r.lo .. r.hi - 1

(***************************************************************************)
(* f32.  The Player's mp, hp and sp, the costs and amounts of the spells,  *)
(* the position, the velocity, the camera, the screen dimensions and the   *)
(* frame time are f32 in the source.  The model holds an f32 by its bits:  *)
(* a value v >= 0 is the integer v.to_bits() (8 bits of biased exponent,   *)
(* 23 bits of fraction), a value v < 0 the negated bits of -v, so that     *)
(* 1.0 is 1065353216 and -1.0 is -1065353216.  Both zeros are 0, infinity  *)
(* is 2139095040 and there is no NaN.  The order of these integers is the  *)
(* order of the values: the comparisons of the source are <, > and = on    *)
(* them.  The operations compute the exact result and round it to 24       *)
(* significant bits, ties to even, as the f32 operations do.               *)
(***************************************************************************)
\* the number of bits of m, 0 < m < 2^31
BitLen(m) == 32 - (CHOOSE k \in 1 .. 31 : m \div (2^(31 - k)) = 1)

\* |v| = F32Man(v) * 2^F32Exp(v), the significand with 24 bits (0 for 0.0)
F32Man(v) ==
    LET a == IF v < 0 THEN -v ELSE v
    IN  IF a >= 8388608 THEN (a % 8388608) + 8388608
        ELSE IF a = 0 THEN 0
        ELSE a * (2^(24 - BitLen(a)))

F32Exp(v) ==
    LET a == IF v < 0 THEN -v ELSE v
    IN  IF a >= 8388608 THEN a \div 8388608 - 150
        ELSE IF a = 0 THEN -149
        ELSE BitLen(a) - 173

\* m shifted right by s bits; the lowest bit kept is set when a bit was lost
Jam(m, s) ==
    IF s > 30 THEN 1
    ELSE LET q == m \div (2^s)
         IN  IF m % (2^s) = 0 \/ q % 2 = 1 THEN q ELSE q + 1

\* m * 2^-s rounded to an integer, ties to even
RoundShift(m, s) ==
    IF s <= 0 THEN m * (2^(-s))
    ELSE IF s > 31 THEN 0
    ELSE IF s = 31 THEN (IF m > 1073741824 THEN 1 ELSE 0)
    ELSE LET q == m \div (2^s)
             r == m % (2^s)
             half == 2^(s - 1)
         IN  IF r > half \/ (r = half /\ q % 2 = 1) THEN q + 1 ELSE q

\* the f32 nearest to m * 2^x (0 <= m < 2^31), negated when neg
F32Pack(neg, m, x) ==
    IF m = 0 THEN 0
    ELSE The({(IF neg THEN -1 ELSE 1) *
                  (IF xt > 104 THEN 2139095040
                   ELSE (xt + 149) * 8388608 + RoundShift(m, xt - x)) :
              xt \in {IF x + BitLen(m) - 24 > -149 THEN x + BitLen(m) - 24 ELSE -149}})

\* a + b
F32Add(a, b) ==
    IF a = 0 THEN b
    ELSE IF b = 0 THEN a
    ELSE The({F32Pack(t[1] < 0,
                      IF (a < 0) = (b < 0) THEN F32Man(t[1]) * 8 + t[3]
                      ELSE F32Man(t[1]) * 8 - t[3],
                      F32Exp(t[1]) - 3) :
              t \in {The({<<big, small,
                            IF F32Exp(big) = F32Exp(small) THEN F32Man(small) * 8
                            ELSE Jam(F32Man(small) * 8, F32Exp(big) - F32Exp(small))>> :
                          big \in {IF (IF a < 0 THEN -a ELSE a) >= (IF b < 0 THEN -b ELSE b)
                                   THEN a ELSE b},
                          small \in {IF (IF a < 0 THEN -a ELSE a) >= (IF b < 0 THEN -b ELSE b)
                                     THEN b ELSE a}})}})

\* a - b
F32Sub(a, b) == F32Add(a, -b)

\* the 48-bit product m * n of two significands as <<hi, lo>>, hi * 2^24 + lo
Mul48(m, n) ==
    LET a1 == m \div 4096
        a0 == m % 4096
        b1 == n \div 4096
        b0 == n % 4096
        mid == a1 * b0 + a0 * b1
        low == (mid % 4096) * 4096 + a0 * b0
    IN  <<a1 * b1 + (mid \div 4096) + (low \div 16777216), low % 16777216>>

\* a * b
F32Mul(a, b) ==
    IF a = 0 \/ b = 0 THEN 0
    ELSE The({F32Pack((a < 0) # (b < 0), p[1] * 8 + Jam(p[2], 21),
                      F32Exp(a) + F32Exp(b) + 21) :
              p \in {Mul48(F32Man(a), F32Man(b))}})

\* long division, 7 bits a step: <<quotient, remainder>>
RECURSIVE DivSteps(_, _, _, _)
DivSteps(q, r, d, k) ==
    IF k = 0 THEN <<q, r>>
    ELSE DivSteps(q * 128 + ((r * 128) \div d), (r * 128) % d, d, k - 1)

\* a / b, b not 0.0
F32Div(a, b) ==
    IF a = 0 THEN 0
    ELSE The({F32Pack((a < 0) # (b < 0), 2 * p[1] + (IF p[2] = 0 THEN 0 ELSE 1),
                      F32Exp(a) - F32Exp(b) - 29) :
              p \in {DivSteps(F32Man(a) \div F32Man(b), F32Man(a) % F32Man(b),
                              F32Man(b), 4)}})

\* `n as f32` for an integer n
I64AsF32(n) == F32Pack(n < 0, IF n < 0 THEN -n ELSE n, 0)

\* `v as i64` for an f32 v below 2^31: truncation toward zero
F32AsI64(v) ==
    LET m == F32Man(v)
        x == F32Exp(v)
        n == IF x >= 0 THEN m * (2^x) ELSE IF x < -30 THEN 0 ELSE m \div (2^(-x))
    IN  IF v < 0 THEN -n ELSE n

\* the f32 literal whose decimal value is n / d: the f32 nearest to it
F32(n, d) == F32Div(I64AsF32(n), I64AsF32(d))

\* a.min(b), a.max(b)
F32Min(a, b) == IF b < a THEN b ELSE a
F32Max(a, b) == IF b > a THEN b ELSE a

\* Vector2: a pair <<x, y>> of f32.  v + w, v - w, v / s and v + s work on
\* each component.
Vector2Add(v, w) == <<F32Add(v[1], w[1]), F32Add(v[2], w[2])>>
Vector2Sub(v, w) == <<F32Sub(v[1], w[1]), F32Sub(v[2], w[2])>>
Vector2Div(v, s) == <<F32Div(v[1], s), F32Div(v[2], s)>>
Vector2AddValue(v, s) == <<F32Add(v[1], s), F32Add(v[2], s)>>

\* const SPEED: f32 = 2.0
SPEED == F32(2, 1)

(***************************************************************************)
(* WorldDraw::get_visible_chunks and draw_world.  camera is the Camera2D   *)
(* of the Player, [offset, target]; `as i64` truncates toward zero.  A     *)
(* Range lo..hi is [lo, hi], holding lo, .., hi - 1.                       *)
(***************************************************************************)
\* mutant of get_visible_chunks: max without the margin of (64, 128)
get_visible_chunks_no_margin(camera, screendims) ==
    The(UNION {
        {<<Range(F32AsI64(min[1]), F32AsI64(max[1])),
           Range(F32AsI64(min[2]), F32AsI64(max[2]))>> :
            min \in {Vector2Div(Vector2Div(
                        Vector2Sub(Vector2Sub(sum, <<F32(64, 1), F32(128, 1)>>), screendims),
                        F32(16, 1)), I64AsF32(SCALE))},
            max \in {Vector2Div(Vector2Div(sum, F32(16, 1)), I64AsF32(SCALE))}} :
        sum \in {Vector2Add(camera.target, camera.offset)}})

\* [min.x as i64..max.x as i64, min.y as i64..max.y as i64]
get_visible_chunks(camera, screendims) ==
    The(UNION {
        {<<Range(F32AsI64(min[1]), F32AsI64(max[1])),
           Range(F32AsI64(min[2]), F32AsI64(max[2]))>> :
            min \in {Vector2Div(Vector2Div(
                        Vector2Sub(Vector2Sub(sum, <<F32(64, 1), F32(128, 1)>>), screendims),
                        F32(16, 1)), I64AsF32(SCALE))},
            max \in {Vector2Div(Vector2Div(
                        Vector2Add(sum, <<F32(64, 1), F32(128, 1)>>),
                        F32(16, 1)), I64AsF32(SCALE))}} :
        sum \in {Vector2Add(camera.target, camera.offset)}})

\* for x in visible[0].clone() { self.draw_chunk(world.get_chunk(x, y)); }:
\* the World after the get_chunk calls of one row
RECURSIVE draw_row(_, _, _, _)
draw_row(w, x, hi, y) ==
    IF x >= hi THEN w
    ELSE The({draw_row(g.world, x + 1, hi, y) : g \in {get_chunk(w, x, y)}})

\* for y in visible[1].clone() { .. }
RECURSIVE draw_rows(_, _, _, _)
draw_rows(w, y, hi, xs) ==
    IF y >= hi THEN w
    ELSE The({draw_rows(r, y + 1, hi, xs) : r \in {draw_row(w, xs.lo, xs.hi, y)}})

\* WorldDraw::draw_world: the World after it has fetched every visible chunk
draw_world(w, camera, screendims) ==
    The({draw_rows(w, visible[2].lo, visible[2].hi, visible[1]) :
         visible \in {get_visible_chunks(camera, screendims)}})

(***************************************************************************)
(* Player and spells.  The position is a Vector2, a pair <<x, y>> here.    *)
(***************************************************************************)
\* struct Camera2D; the fields the model follows
Camera2D(offset, target) == [offset |-> offset, target |-> target]

\* Player::new(position); the fields the model follows
Player_new(position) ==
    [position |-> position, camera |-> Camera2D(<<0, 0>>, position),
     mp |-> F32(100, 1), hp |-> F32(100, 1), sp |-> F32(100, 1),
     max_mp |-> F32(100, 1), max_hp |-> F32(100, 1), max_sp |-> F32(100, 1)]

\* Player::move_self: the position moves by delta and the camera target
\* follows it
move_self(self, delta) ==
    The({[self EXCEPT
             !.position = newpos,
             !.camera.target =
                 Vector2Sub(@, Vector2Div(Vector2Sub(Vector2Div(@, I64AsF32(SCALE)), newpos),
                                          F32(3, 1)))] :
         newpos \in {Vector2Add(self.position, delta)}})

\* Player::set_hp: hp.clamp(0.0, self.max_hp)
set_hp(self, hp) ==
    [self EXCEPT !.hp = IF hp < 0 THEN 0 ELSE IF hp > self.max_hp THEN self.max_hp ELSE hp]

\* enum SpellComponent (the amount of a Damage is an f32)
SetPixelComponent(x_rel, y_rel, material, color, on_touch) ==
    [type |-> "SetPixel", x_rel |-> x_rel, y_rel |-> y_rel, material |-> material,
     color |-> color, events |-> [on_touch |-> on_touch]]
DamageComponent(amount) == [type |-> "Damage", amount |-> amount]
NothingComponent == [type |-> "Nothing"]

\* parse_components: the f32 cost it returns for the components it pushes,
\* summed in their order.  A setpixel adds 16.0 and then 1.5 times the cost
\* of its on_touch components, a damage its amount times 8.0, anything else
\* nothing.
RECURSIVE parse_components_cost(_)
parse_components_cost(components) ==
    LET cost[i \in 0 .. Len(components)] ==
            IF i = 0 THEN 0
            ELSE LET comp == components[i]
                 IN  IF comp.type = "SetPixel"
                     THEN F32Add(F32Add(cost[i - 1], F32(16, 1)),
                                 F32Mul(parse_components_cost(comp.events.on_touch),
                                        F32(3, 2)))
                     ELSE IF comp.type = "Damage"
                     THEN F32Add(cost[i - 1], F32Mul(comp.amount, F32(8, 1)))
                     ELSE cost[i - 1]
    IN  cost[Len(components)]

\* struct Spell, as main builds it from a spell file
Spell(name, components) ==
    [name |-> name, components |-> components, cost |-> parse_components_cost(components)]

\* one component of the loop of activate_spell, on st = [player, world, calls]
\* (calls: the World::set_pixel calls made so far, as <<x, y, pixel>>).  The
\* outcomes are a set: Damage writes hp through the *mut Player stored by
\* parse_components while activate_spell holds &mut self to the same Player,
\* which the aliasing rules leave undefined; the write to hp takes place or
\* is dropped.  The events of a SetPixel are not run.
run_component(component, st) ==
    IF component.type = "SetPixel"
    THEN LET x == F32AsI64(st.player.position[1]) + component.x_rel
             y == F32AsI64(st.player.position[2]) + component.y_rel
             pixel == Pixel(spell_local(x), spell_local(y),
                            component.material, component.color)
         IN  {[st EXCEPT !.world = World_set_pixel(st.world, x, y, pixel).world,
                         !.calls = Append(@, <<x, y, pixel>>)]}
    ELSE IF component.type = "Damage"
    THEN {[st EXCEPT !.player = set_hp(@, F32Sub(@.hp, component.amount))], st}
    ELSE {st}

\* for component in &spell.components { .. }
RECURSIVE run_components(_, _)
run_components(components, st) ==
    IF components = <<>> THEN {st}
    ELSE UNION {run_components(Tail(components), s2) :
                    s2 \in run_component(Head(components), st)}

\* mutant of activate_spell: the test is self.mp <= spell.cost
activate_spell_strict(self, spell, w) ==
    IF self.mp <= spell.cost
    THEN {[player |-> self, world |-> w, calls |-> <<>>]}
    ELSE run_components(spell.components,
             [player |-> [self EXCEPT !.mp = F32Sub(@, spell.cost)], world |-> w,
              calls |-> <<>>])

\* Player::activate_spell: the outcomes [player, world, calls]
activate_spell(self, spell, w) ==
    IF self.mp < spell.cost
    THEN {[player |-> self, world |-> w, calls |-> <<>>]}
    ELSE run_components(spell.components,
             [player |-> [self EXCEPT !.mp = F32Sub(@, spell.cost)], world |-> w,
              calls |-> <<>>])

(***************************************************************************)
(* The collision step of a frame of main (lines 670-757), on               *)
(* st = [world, position, newpos, vel, emptycount, ok]: position is        *)
(* player.position, newpos, vel and emptycount the locals of main, and     *)
(* ok = FALSE the panic of a World::get_pixel.                             *)
(***************************************************************************)
\* while toppx.material != PixelMaterial::AIR { toppx = world.get_pixel(x, y);
\* <one step along the axis> }, entered with a toppx that is not AIR: the
\* World after the reads and the x, y the loop ends with
RECURSIVE scan_toppx(_, _, _, _, _)
scan_toppx(w, x, y, dx, dy) ==
    The({
        IF ~g.ok THEN [world |-> g.world, x |-> x, y |-> y, ok |-> FALSE]
        ELSE IF g.pixel.material = "AIR"
        THEN [world |-> g.world, x |-> x + dx, y |-> y + dy, ok |-> TRUE]
        ELSE scan_toppx(g.world, x + dx, y + dy, dx, dy) :
        g \in {World_get_pixel(w, x, y)}})

\* one pass of the loop of lines 673-691: the pixel under the feet at column x
\* (`if newpos.y > y as f32 - 14.0 { newpos.y = y as f32 - 14.0; }`, then
\* player.position.y = newpos.y)
probe_below(st, x) ==
    The(UNION {
        IF ~g.ok THEN {[st EXCEPT !.world = g.world, !.ok = FALSE]}
        ELSE IF g.pixel.material = "AIR"
        THEN {[st EXCEPT !.world = g.world, !.emptycount = @ + 1]}
        ELSE UNION {
                 {[st EXCEPT !.world = s.world, !.ok = s.ok, !.vel[2] = 0,
                             !.newpos[2] = F32Min(@, lim),
                             !.position[2] = F32Min(st.newpos[2], lim)] :
                      lim \in {F32Sub(I64AsF32(s.y), F32(14, 1))}} :
                 s \in {scan_toppx(g.world, x, F32AsI64(st.newpos[2]) + 16, 0, -1)}} :
        g \in {World_get_pixel(st.world, x, F32AsI64(st.newpos[2]) + 16)}})

\* one pass of the loop of lines 696-712: the pixel at the head at column x
probe_above(st, x) ==
    The(UNION {
        IF ~g.ok THEN {[st EXCEPT !.world = g.world, !.ok = FALSE]}
        ELSE IF g.pixel.material = "AIR"
        THEN {[st EXCEPT !.world = g.world]}
        ELSE UNION {
                 {[st EXCEPT !.world = s.world, !.ok = s.ok, !.vel[2] = 0,
                             !.newpos[2] = F32Max(@, lim),
                             !.position[2] = F32Max(st.newpos[2], lim)] :
                      lim \in {F32Add(I64AsF32(s.y), F32(2, 1))}} :
                 s \in {scan_toppx(g.world, x, F32AsI64(st.newpos[2]), 0, 1)}} :
        g \in {World_get_pixel(st.world, x, F32AsI64(st.newpos[2]))}})

\* one pass of the loop of lines 714-730: the pixel at the left side at row y
probe_left(st, y) ==
    The(UNION {
        IF ~g.ok THEN {[st EXCEPT !.world = g.world, !.ok = FALSE]}
        ELSE IF g.pixel.material = "AIR"
        THEN {[st EXCEPT !.world = g.world]}
        ELSE UNION {
                 {[st EXCEPT !.world = s.world, !.ok = s.ok, !.vel[1] = 0,
                             !.newpos[1] = F32Max(@, lim),
                             !.position[1] = F32Max(st.newpos[1], lim)] :
                      lim \in {F32Sub(I64AsF32(s.x), F32(3, 1))}} :
                 s \in {scan_toppx(g.world, F32AsI64(st.newpos[1]), y, 1, 0)}} :
        g \in {World_get_pixel(st.world, F32AsI64(st.newpos[1]), y)}})

\* one pass of the loop of lines 732-748: the pixel at the right side at row y
probe_right(st, y) ==
    The(UNION {
        IF ~g.ok THEN {[st EXCEPT !.world = g.world, !.ok = FALSE]}
        ELSE IF g.pixel.material = "AIR"
        THEN {[st EXCEPT !.world = g.world]}
        ELSE UNION {
                 {[st EXCEPT !.world = s.world, !.ok = s.ok, !.vel[1] = 0,
                             !.newpos[1] = F32Min(@, lim),
                             !.position[1] = F32Min(st.newpos[1], lim)] :
                      lim \in {F32Add(I64AsF32(s.x), F32(5, 1))}} :
                 s \in {scan_toppx(g.world, F32AsI64(st.newpos[1]) + 8, y, -1, 0)}} :
        g \in {World_get_pixel(st.world, F32AsI64(st.newpos[1]) + 8, y)}})

\* for v in first..first + n { .. } of one of the four loops; a panic ends it
RECURSIVE probes(_, _, _, _)
probes(side, st, first, n) ==
    IF n = 0 \/ ~st.ok THEN st
    ELSE The({probes(side, s, first + 1, n - 1) :
             s \in {CASE side = "below" -> probe_below(st, first)
                      [] side = "above" -> probe_above(st, first)
                      [] side = "left" -> probe_left(st, first)
                      [] side = "right" -> probe_right(st, first)}})

\* lines 611-623: the Vector2 `inputs` for the keys that are down
inputs(down) ==
    <<F32Sub(F32Add(0, IF "D" \in down THEN F32(1, 1) ELSE 0),
             IF "A" \in down THEN F32(1, 1) ELSE 0),
      F32Add(F32Sub(0, IF "W" \in down THEN F32(1, 1) ELSE 0),
             IF "S" \in down THEN F32(1, 1) ELSE 0)>>

\* lines 670-757, on the Player, the locals loc = [vel, coyotetime, jump_time]
\* of main and the World: vel.x from the keys, newpos = position + delta,
\* the four loops, the gravity `vel.y += 9.81 * delta` when the 8 pixels
\* under the feet are AIR, the jump of lines 750-755 (space: KEY_SPACE was
\* pressed in the frame), then player.move_self(vel).  The ranges of the loops
\* are fixed when a loop starts; the other coordinate of a probe is read from
\* newpos in every pass.
collide_and_move(self, loc, w, in, space, delta) ==
    LET st0 == [world |-> w, position |-> self.position,
                newpos |-> Vector2AddValue(self.position, delta),
                vel |-> <<F32Mul(in[1], SPEED), loc.vel[2]>>, emptycount |-> 0, ok |-> TRUE]
        xs == F32AsI64(st0.newpos[1])
        fall(st) == IF st.emptycount = 8
                    THEN [st EXCEPT !.vel[2] = F32Add(@, F32Mul(F32(981, 100), delta))]
                    ELSE st
        ys(st) == F32AsI64(st.newpos[2])
        jump == (space \/ in[2] < 0) /\ loc.coyotetime > 0 /\ self.sp > F32(5, 1)
        moved(st) ==
            The({[player |-> move_self([self EXCEPT !.position = st.position,
                                                    !.sp = IF jump THEN F32Sub(@, F32(5, 1))
                                                           ELSE @], vel),
                  vel |-> vel,
                  coyotetime |-> IF jump THEN 0 ELSE loc.coyotetime,
                  jump_time |-> IF jump THEN 0 ELSE loc.jump_time,
                  world |-> st.world, ok |-> st.ok] :
                 vel \in {IF jump THEN <<st.vel[1], F32Sub(st.vel[2], F32(320, 100))>>
                          ELSE st.vel}})
    IN  The(UNION {UNION {UNION {{moved(right) :
            right \in {probes("right", left, ys(above), 12)}} :
            left \in {probes("left", above, ys(above), 12)}} :
            above \in {probes("above", fall(below), xs, 8)}} :
            below \in {probes("below", st0, xs, 8)}})

\* lines 798-800: if player.mp < player.max_mp
\*     { player.mp = (player.mp + 2.0 * delta).min(player.max_mp); }
regenerate_mp(self, delta) ==
    IF self.mp < self.max_mp
    THEN [self EXCEPT !.mp = F32Min(F32Add(@, F32Mul(F32(2, 1), delta)), self.max_mp)]
    ELSE self

\* lines 801-803: if player.sp < player.max_sp && jump_time > 2.0
\*     { player.sp = (player.sp + 35.0 * delta).min(player.max_sp); }
regenerate_sp(self, jump_time, delta) ==
    IF self.sp < self.max_sp /\ jump_time > F32(2, 1)
    THEN [self EXCEPT !.sp = F32Min(F32Add(@, F32Mul(F32(35, 1), delta)), self.max_sp)]
    ELSE self

(***************************************************************************)
(* State.                                                                  *)
(*   world    the World of main                                            *)
(*   last     the last call made on it: its arguments and what it returned *)
(*   written  for every world coordinate, the pixel of the last            *)
(*            World::set_pixel on it (NoPixel before the first)            *)
(*   chunk    a Chunk driven directly through add_pixel / set_pixel /      *)
(*            get_pixel (specification SpecChunk)                          *)
(*   player   the Player of main                                           *)
(*   mainloop the locals of main's loop and its position in the frame:     *)
(*            frames, the number of frames begun; pc, the step of the      *)
(*            frame that comes next (0: the head of the loop); input, what *)
(*            raylib reports in the frame; vel, active_index, jump_time,   *)
(*            coyotetime and screendim, the locals of these names          *)
(***************************************************************************)
VARIABLES world, last, written, chunk, player, mainloop

vars == <<world, last, written, chunk, player, mainloop>>

NoPixel == Pixel(0, 0, "AIR", Color(0, 0, 0, 0))

\* local coordinates the callers address inside a chunk
Locals == {<<4, 5>>}

\* world coordinates the callers of get_pixel / set_pixel pass
Points ==
    {<<cx * 16 + l[1], cy * 16 + l[2]>> : cx \in ChunkXs, cy \in ChunkYs, l \in Locals}

\* local coordinates the collision probes of main read next to them, and a
\* corner of the chunk
ProbeLocals == Locals \cup {<<4, 6>>, <<15, 0>>}

\* world coordinates the properties probe with get_pixel
ProbePoints ==
    {<<cx * 16 + l[1], cy * 16 + l[2]>> : cx \in ChunkXs, cy \in ChunkYs, l \in ProbeLocals}

\* signed target coordinates of SetPixel components: player position plus
\* relative offset
SpellTargets == -((MaxChunkX + 1) * 16) .. (MaxChunkX + 1) * 16 - 1

\* colours of the spells' SetPixel components
SpellColors == {Color(255, 0, 0, 255)}

\* a call and its outcome: the arguments (x, y), the indices (row, col) of the
\* chunk it addressed (col is the Ok/Err index for the Chunk-level calls), the
\* number of chunks it generated, whether it returned (ok = FALSE: Err or
\* panic), the pixel passed or returned, and whether it reordered the chunks
Call(op, x, y, row, col, gen, ok, pixel, moved) ==
    [op |-> op, x |-> x, y |-> y, row |-> row, col |-> col, gen |-> gen,
     ok |-> ok, pixel |-> pixel, moved |-> moved]

RECURSIVE SumLen(_)
SumLen(rows) == IF rows = <<>> THEN 0 ELSE Len(Head(rows)) + SumLen(Tail(rows))

\* number of chunks a World stores
NumChunks(w) == SumLen(w.chunks)

\* what raylib reports during one frame: the size of the window, the frame
\* time, the keys that are down, the keys pressed in this frame, and whether
\* the left mouse button was pressed in it
Input(width, height, frame_time, down, pressed, click) ==
    [width |-> width, height |-> height, frame_time |-> frame_time, down |-> down,
     pressed |-> pressed, click |-> click]

\* lines 547-592: the Player, its camera offset at the middle of the window,
\* and the locals of main before the first frame
Init ==
    /\ \E seed \in Seeds : world = World_new(seed)
    /\ last = Call("new", 0, 0, 0, 0, 0, TRUE, NoPixel, FALSE)
    /\ written = [w \in Points |-> NoPixel]
    /\ chunk = Chunk_new(0, 0)
    /\ player = [Player_new(<<0, 0>>) EXCEPT
                    !.camera.offset = <<F32Div(I64AsF32(InitWidth), F32(2, 1)),
                                        F32Div(I64AsF32(InitHeight), F32(2, 1))>>]
    /\ mainloop = [frames |-> 0, pc |-> 0,
                   input |-> Input(InitWidth, InitHeight, 0, {}, {}, FALSE),
                   vel |-> <<0, 0>>, active_index |-> 0, jump_time |-> 0,
                   coyotetime |-> F32(1, 10),
                   screendim |-> <<I64AsF32(InitWidth), I64AsF32(InitHeight)>>]

\* draw_world: world.get_chunk(x, y)
GetChunk(x, y) ==
    \E g \in {get_chunk(world, x, y)} :
        /\ NumChunks(g.world) <= MaxChunks
        /\ world' = g.world
        /\ last' = Call("get_chunk", x, y, g.row, g.col,
                        NumChunks(g.world) - NumChunks(world), TRUE, NoPixel, FALSE)
        /\ UNCHANGED <<written, chunk, player, mainloop>>

\* the collision probes of main: world.get_pixel(x, y)
GetPixel(x, y) ==
    \E g \in {World_get_pixel(world, x, y)} :
        /\ NumChunks(g.world) <= MaxChunks
        /\ world' = g.world
        /\ last' = Call("get_pixel", x, y, g.row, g.col,
                        NumChunks(g.world) - NumChunks(world), g.ok, g.pixel, FALSE)
        /\ UNCHANGED <<written, chunk, player, mainloop>>

\* Player::activate_spell, SetPixel component aimed at world (x, y):
\* world.set_pixel(x, y, Pixel { x: .., y: .., material, color })
SetPixel(x, y, material, color) ==
    \E pixel \in {Pixel(spell_local(x), spell_local(y), material, color)} :
    \E s \in {World_set_pixel(world, x, y, pixel)} :
        /\ NumChunks(s.world) <= MaxChunks
        /\ world' = s.world
        /\ last' = Call("set_pixel", x, y, s.row, s.col,
                        NumChunks(s.world) - NumChunks(world), TRUE, pixel, FALSE)
        /\ written' = [written EXCEPT ![<<x, y>>] = pixel]
        /\ UNCHANGED <<chunk, player, mainloop>>

\* world.sort_chunks()
SortChunks ==
    \E s \in {sort_chunks(world)} :
        /\ world' = s
        /\ last' = Call("sort_chunks", 0, 0, 0, 0, 0, TRUE, NoPixel,
                        s.chunks # world.chunks)
        /\ UNCHANGED <<written, chunk, player, mainloop>>

\* the end of a frame of main's loop (lines 795-805): the sort when the
\* World was modified, the mp and sp the Player regains in the frame time,
\* coyotetime and jump_time, and the loop is back at its head
EndFrame ==
    \E s \in {frame_end(world)}, delta \in {mainloop.input.frame_time} :
        /\ world' = s
        /\ player' = regenerate_sp(regenerate_mp(player, delta), mainloop.jump_time, delta)
        /\ mainloop' = [mainloop EXCEPT
                            !.pc = 0,
                            !.coyotetime = F32Max(0, F32Sub(@, delta)),
                            !.jump_time = F32Add(@, delta)]
        /\ last' = Call("end_frame", 0, 0, 0, 0, 0, TRUE, NoPixel,
                        s.chunks # world.chunks)
        /\ UNCHANGED <<written, chunk>>

Next ==
    \/ \E x \in ChunkXs, y \in ChunkYs : GetChunk(x, y)
    \/ \E w \in Points : GetPixel(w[1], w[2])
    \/ \E w \in Points, m \in PixelMaterial, c \in SpellColors :
           SetPixel(w[1], w[2], m, c)
    \/ SortChunks
    \/ EndFrame

Spec == Init /\ [][Next]_vars

(***************************************************************************)
(* SpecChunk: one Chunk, from Chunk::new(0, 0), through any sequence of    *)
(* Chunk::add_pixel, Chunk::set_pixel and Chunk::get_pixel calls.          *)
(***************************************************************************)
\* columns and rows the Chunk-level calls address
ChunkCallXs == {0, 15}
ChunkCallYs == {3, 7}
ChunkQueryYs == {0, 3, 5, 7, 15}

ChunkAddPixel(pixel) ==
    /\ Len(chunk.pixels[pixel.x + 1]) < MaxColLen
    /\ chunk' = Chunk_add_pixel(chunk, pixel)
    /\ last' = Call("Chunk::add_pixel", pixel.x, pixel.y, 0, 0, 0, TRUE, pixel, FALSE)
    /\ UNCHANGED <<world, written, player, mainloop>>

ChunkSetPixel(pixel) ==
    \E c \in {Chunk_set_pixel(chunk, pixel)} :
        /\ Len(c.pixels[pixel.x + 1]) <= MaxColLen
        /\ chunk' = c
        /\ last' = Call("Chunk::set_pixel", pixel.x, pixel.y, 0, 0, 0, TRUE, pixel, FALSE)
        /\ UNCHANGED <<world, written, player, mainloop>>

ChunkGetPixel(x, y) ==
    \E r \in {Chunk_get_pixel(chunk, x, y)} :
        /\ last' = Call("Chunk::get_pixel", x, y, 0, r.i, 0, r.ok, r.pixel, FALSE)
        /\ UNCHANGED <<world, written, chunk, player, mainloop>>

\* a World whose one stored chunk is c, sorted (c is a chunk at (0, 0))
WorldOf(c) == [World_new(0) EXCEPT !.chunks = <<<<c>>>>]

\* World::get_pixel(x, y) on a World that stores the chunk built by the calls
\* above.  Chunk::generate never leaves a cell out, so this is the one way to
\* bring World::get_pixel to a chunk that lacks the cell it looks for.
ChunkWorldGetPixel(x, y) ==
    \E r \in {World_get_pixel(WorldOf(chunk), x, y)} :
        /\ last' = Call("get_pixel", x, y, r.row, r.col, 0, r.ok, r.pixel, FALSE)
        /\ UNCHANGED <<world, written, chunk, player, mainloop>>

NextChunk ==
    \/ \E x \in ChunkCallXs, y \in ChunkCallYs, m \in PixelMaterial, c \in SpellColors :
           ChunkAddPixel(Pixel(x, y, m, c))
    \/ \E x \in ChunkCallXs, y \in ChunkCallYs, m \in PixelMaterial, c \in SpellColors :
           ChunkSetPixel(Pixel(x, y, m, c))
    \/ \E x \in ChunkCallXs, y \in ChunkQueryYs : ChunkGetPixel(x, y)
    \/ \E x \in ChunkCallXs, y \in ChunkQueryYs : ChunkWorldGetPixel(x, y)

SpecChunk == Init /\ [][NextChunk]_vars

(***************************************************************************)
(* SpecGen: a World through any sequence of World::generate_chunk,         *)
(* World::get_chunk and World::sort_chunks calls.  main never calls        *)
(* generate_chunk (the loop that did is commented out, lines 575-579); it  *)
(* is a method of World, driven here as its callers could.                 *)
(***************************************************************************)
GenerateChunk(x, y) ==
    \E g \in {generate_chunk(world, x, y)} :
        /\ NumChunks(g.world) <= MaxChunks
        /\ world' = g.world
        /\ last' = Call("generate_chunk", x, y, g.row, g.col,
                        NumChunks(g.world) - NumChunks(world), TRUE, NoPixel, FALSE)
        /\ UNCHANGED <<written, chunk, player, mainloop>>

NextGen ==
    \/ \E x \in ChunkXs, y \in ChunkYs : GenerateChunk(x, y)
    \/ \E x \in ChunkXs, y \in ChunkYs : GetChunk(x, y)
    \/ SortChunks

SpecGen == Init /\ [][NextGen]_vars

(***************************************************************************)
(* SpecView: get_visible_chunks, called by draw_world with the camera of   *)
(* the player and the screen dimensions.                                   *)
(***************************************************************************)
Cameras ==
    {Camera2D(<<0, 0>>, <<0, 0>>),
     Camera2D(<<F32(32, 1), F32(32, 1)>>, <<F32(-32, 1), F32(-32, 1)>>),
     Camera2D(<<F32(320, 1), F32(240, 1)>>, <<0, 0>>),
     Camera2D(<<F32(320, 1), F32(240, 1)>>, <<F32(-841, 2), F32(-2771, 10)>>)}
ScreenWidths == {w \in 0 .. MaxScreen : w % 64 \in {0, 2, 63}}
ScreenHeights == {0, 63, 64, 480}

GetVisibleChunks(camera, screendims) ==
    /\ last' = [op |-> "get_visible_chunks", camera |-> camera,
                screendims |-> screendims,
                visible |-> get_visible_chunks(camera, screendims)]
    /\ UNCHANGED <<world, written, chunk, player, mainloop>>

NextView ==
    \E camera \in Cameras, sw \in ScreenWidths, sh \in ScreenHeights :
        GetVisibleChunks(camera, <<I64AsF32(sw), I64AsF32(sh)>>)

SpecView == Init /\ [][NextView]_vars

(***************************************************************************)
(* SpecSpell: the frames of main's loop, from Player::new(Vector2::zero()) *)
(* on World::new().  raylib polls the window and the devices once a frame, *)
(* so every is_key_down, is_key_pressed, is_mouse_button_pressed,          *)
(* get_screen_width and get_frame_time of a frame reads the same Input.    *)
(* A frame runs its steps in the order of the source: the head of the loop *)
(* (lines 594-623), one step for each `if` whose key or button the Input   *)
(* holds, the collision step with the jump and move_self, draw_world, and  *)
(* the end of the frame.                                                   *)
(***************************************************************************)
\* the spells of the spell files, in the order main pushes them
spells ==
    <<Spell("two", <<SetPixelComponent(-12, -11, "BLOCK", Color(255, 0, 0, 255),
                                      <<NothingComponent>>),
                     NothingComponent,
                     SetPixelComponent(4, 5, "AIR", Color(255, 0, 0, 255),
                                      <<DamageComponent(F32(3, 2))>>)>>),
      Spell("nest", <<SetPixelComponent(4, 5, "BLOCK", Color(255, 0, 0, 255),
                         <<SetPixelComponent(4, 6, "BLOCK", Color(255, 0, 0, 255),
                                             <<DamageComponent(F32(1, 8))>>)>>)>>),
      Spell("block", <<SetPixelComponent(4, 5, "BLOCK", Color(255, 0, 0, 255),
                                        <<NothingComponent>>)>>),
      Spell("hurt", <<DamageComponent(F32(4, 1))>>)>>

\* the Inputs of a frame: walking right with the draining keys down and a
\* click; the restoring keys, KEY_UP and a click in a frame of no time; a jump
\* by KEY_W to the left with KEY_DOWN in a resized window after a long frame;
\* KEY_SPACE with W and S both down and a click; a click alone in a frame of
\* no time
FrameInputs ==
    {Input(InitWidth, InitHeight, F32(1, 2), {"D", "O", "K", "N"}, {}, TRUE),
     Input(InitWidth, InitHeight, 0, {"P", "L", "M"}, {"UP"}, TRUE),
     Input(MaxScreen, InitHeight, F32(5, 2), {"W", "A"}, {"DOWN"}, FALSE),
     Input(InitWidth, InitHeight, F32(1, 2), {"W", "S"}, {"SPACE"}, TRUE),
     Input(InitWidth, InitHeight, 0, {}, {}, TRUE)}

\* written after the set_pixel calls of a spell
RECURSIVE WrittenAfter(_, _)
WrittenAfter(wr, calls) ==
    IF calls = <<>> THEN wr
    ELSE LET w == <<Head(calls)[1], Head(calls)[2]>>
         IN  WrittenAfter(IF w \in DOMAIN wr THEN [wr EXCEPT ![w] = Head(calls)[3]] ELSE wr,
                          Tail(calls))

\* the condition of the `if` that is step pc of a frame (1 KEY_P, 2 KEY_O,
\* 3 KEY_L, 4 KEY_K, 5 KEY_M, 6 KEY_N, 7 the left click, 8 KEY_DOWN, 9 KEY_UP);
\* the steps from 10 on (the collision step, draw_world, the end of the frame)
\* are not conditional
Taken(pc, in) ==
    CASE pc = 1 -> "P" \in in.down
      [] pc = 2 -> "O" \in in.down
      [] pc = 3 -> "L" \in in.down
      [] pc = 4 -> "K" \in in.down
      [] pc = 5 -> "M" \in in.down
      [] pc = 6 -> "N" \in in.down
      [] pc = 7 -> in.click
      [] pc = 8 -> "DOWN" \in in.pressed
      [] pc = 9 -> "UP" \in in.pressed
      [] OTHER -> TRUE

\* the first step from pc on that the frame runs
StepFrom(pc, in) == CHOOSE p \in pc .. 10 : Taken(p, in) /\ \A q \in pc .. p - 1 : ~Taken(q, in)

\* step pc of the frame is the next one; after it the frame goes on with the
\* first step behind pc that it runs
AtStep(pc) == mainloop.pc = pc
Advance(pc) == [mainloop EXCEPT !.pc = StepFrom(pc + 1, mainloop.input)]

\* the head of the loop (lines 594-623) in a frame that reads the Input in
BeginFrame(in) ==
    /\ AtStep(0)
    /\ mainloop.frames < MaxFrames
    /\ \E width \in {I64AsF32(in.width)}, height \in {I64AsF32(in.height)} :
        /\ player' = [player EXCEPT
                         !.camera.offset[1] = IF mainloop.screendim[1] # width
                                              THEN F32Div(width, F32(2, 1)) ELSE @,
                         !.camera.offset[2] = IF mainloop.screendim[2] # height
                                              THEN F32Div(height, F32(2, 1)) ELSE @]
        /\ mainloop' = [mainloop EXCEPT
                            !.frames = @ + 1,
                            !.pc = StepFrom(1, in),
                            !.input = in,
                            !.coyotetime = IF mainloop.vel[2] = 0 THEN F32(1, 10) ELSE @,
                            !.screendim = <<width, height>>]
    /\ last' = [op |-> "begin_frame"]
    /\ UNCHANGED <<world, written, chunk>>

\* if rl.is_key_down(KEY_P) { player.hp = player.max_hp.min(player.hp + 3.0); }
RestoreHp ==
    /\ AtStep(1)
    /\ player' = [player EXCEPT !.hp = F32Min(player.max_hp, F32Add(@, F32(3, 1)))]
    /\ mainloop' = Advance(1)
    /\ last' = [op |-> "key_p"]
    /\ UNCHANGED <<world, written, chunk>>

\* if rl.is_key_down(KEY_O) { player.hp = 0f32.max(player.hp - 3.0); }
DrainHp ==
    /\ AtStep(2)
    /\ player' = [player EXCEPT !.hp = F32Max(0, F32Sub(@, F32(3, 1)))]
    /\ mainloop' = Advance(2)
    /\ last' = [op |-> "key_o"]
    /\ UNCHANGED <<world, written, chunk>>

\* if rl.is_key_down(KEY_L) { player.mp = player.max_mp.min(player.mp + 3.0); }
RestoreMp ==
    /\ AtStep(3)
    /\ player' = [player EXCEPT !.mp = F32Min(player.max_mp, F32Add(@, F32(3, 1)))]
    /\ mainloop' = Advance(3)
    /\ last' = [op |-> "key_l"]
    /\ UNCHANGED <<world, written, chunk>>

\* if rl.is_key_down(KEY_K) { player.mp = 0f32.max(player.mp - 3.0); }
DrainMp ==
    /\ AtStep(4)
    /\ player' = [player EXCEPT !.mp = F32Max(0, F32Sub(@, F32(3, 1)))]
    /\ mainloop' = Advance(4)
    /\ last' = [op |-> "key_k"]
    /\ UNCHANGED <<world, written, chunk>>

\* if rl.is_key_down(KEY_M) { player.sp = player.max_sp.min(player.sp + 3.0); }
RestoreSp ==
    /\ AtStep(5)
    /\ player' = [player EXCEPT !.sp = F32Min(player.max_sp, F32Add(@, F32(3, 1)))]
    /\ mainloop' = Advance(5)
    /\ last' = [op |-> "key_m"]
    /\ UNCHANGED <<world, written, chunk>>

\* if rl.is_key_down(KEY_N) { player.sp = 0f32.max(player.sp - 3.0); }
DrainSp ==
    /\ AtStep(6)
    /\ player' = [player EXCEPT !.sp = F32Max(0, F32Sub(@, F32(3, 1)))]
    /\ mainloop' = Advance(6)
    /\ last' = [op |-> "key_n"]
    /\ UNCHANGED <<world, written, chunk>>

\* if rl.is_mouse_button_pressed(..) { player.activate_spell(active_spell, &mut world); }
ActivateSpell ==
    /\ AtStep(7)
    /\ \E spell \in {spells[mainloop.active_index + 1]} :
       \E r \in activate_spell(player, spell, world) :
        /\ player' = r.player
        /\ world' = r.world
        /\ written' = WrittenAfter(written, r.calls)
        /\ mainloop' = Advance(7)
        /\ last' = [op |-> "activate_spell", spell |-> spell, calls |-> r.calls,
                    before |-> [player |-> player, world |-> world]]
        /\ UNCHANGED chunk

\* if rl.is_key_pressed(KEY_DOWN) { .. }: the spell before the active one,
\* the last one before the first
SelectPrevious ==
    /\ AtStep(8)
    /\ mainloop' = [Advance(8) EXCEPT
                        !.active_index = IF @ = 0 THEN Len(spells) - 1 ELSE @ - 1]
    /\ last' = [op |-> "key_down"]
    /\ UNCHANGED <<world, written, chunk, player>>

\* if rl.is_key_pressed(KEY_UP) { .. }: the spell after the active one, the
\* first one after the last
SelectNext ==
    /\ AtStep(9)
    /\ mainloop' = [Advance(9) EXCEPT
                        !.active_index = IF @ = Len(spells) - 1 THEN 0 ELSE @ + 1]
    /\ last' = [op |-> "key_up"]
    /\ UNCHANGED <<world, written, chunk, player>>

\* lines 670-757: the collision step, the jump and player.move_self(vel)
CollideAndMove ==
    /\ AtStep(10)
    /\ \E r \in {collide_and_move(player, mainloop, world, inputs(mainloop.input.down),
                                  "SPACE" \in mainloop.input.pressed,
                                  mainloop.input.frame_time)} :
        /\ r.ok
        /\ player' = r.player
        /\ world' = r.world
        /\ mainloop' = [mainloop EXCEPT !.pc = 11, !.vel = r.vel,
                                        !.coyotetime = r.coyotetime,
                                        !.jump_time = r.jump_time]
        /\ last' = [op |-> "collide_and_move",
                    before |-> [player |-> player, vel |-> mainloop.vel]]
        /\ UNCHANGED <<written, chunk>>

\* d2d.draw_world(&mut world, &player.camera, screendim)
DrawWorld ==
    /\ AtStep(11)
    /\ world' = draw_world(world, player.camera, mainloop.screendim)
    /\ mainloop' = [mainloop EXCEPT !.pc = 12]
    /\ last' = [op |-> "draw_world",
                visible |-> get_visible_chunks(player.camera, mainloop.screendim),
                before |-> [world |-> world]]
    /\ UNCHANGED <<written, chunk, player>>

NextSpell ==
    \/ \E in \in FrameInputs : BeginFrame(in)
    \/ RestoreHp
    \/ DrainHp
    \/ RestoreMp
    \/ DrainMp
    \/ RestoreSp
    \/ DrainSp
    \/ ActivateSpell
    \/ SelectPrevious
    \/ SelectNext
    \/ CollideAndMove
    \/ DrawWorld
    \/ AtStep(12) /\ EndFrame

SpecSpell == Init /\ [][NextSpell]_vars

(***************************************************************************)
(* Vocabulary of the properties.                                           *)
(***************************************************************************)
\* the (row, col) sequence positions at which a World stores a chunk
Positions(w) ==
    UNION {{<<i, j>> : j \in 1 .. Len(w.chunks[i])} : i \in 1 .. Len(w.chunks)}

\* a chunk with chunk coordinate (cx, cy) is stored
Stored(w, cx, cy) ==
    \E p \in Positions(w) :
        /\ w.chunks[p[1]][p[2]].x = cx * 16
        /\ w.chunks[p[1]][p[2]].y = cy * 16

\* how many positions of w hold the chunk value c
Copies(w, c) == Cardinality({p \in Positions(w) : w.chunks[p[1]][p[2]] = c})

ChunkValues(w) == {w.chunks[p[1]][p[2]] : p \in Positions(w)}

\* the row list is ascending by r[0].y and every row is ascending by c.x
Sorted(w) ==
    /\ \A i \in 1 .. Len(w.chunks) - 1 : w.chunks[i][1].y <= w.chunks[i + 1][1].y
    /\ \A i \in 1 .. Len(w.chunks) :
          \A j \in 1 .. Len(w.chunks[i]) - 1 : w.chunks[i][j].x <= w.chunks[i][j + 1].x

\* two pixels agree on material and colour
SameLook(p, q) == p.material = q.material /\ p.color = q.color

\* the pixel activate_spell builds for world (x, y)
SpellPixel(x, y, material, color) ==
    Pixel(spell_local(x), spell_local(y), material, color)

\* a column is ascending by y / strictly ascending by y
Ascending(column) ==
    \A k \in 1 .. Len(column) - 1 : column[k].y <= column[k + 1].y
StrictlyAscending(column) ==
    \A k \in 1 .. Len(column) - 1 : column[k].y < column[k + 1].y

\* a chunk holds exactly one pixel for every local (x, y), in column x at index y
Complete(c) ==
    /\ DOMAIN c.pixels = 1 .. CHUNK_SIZE
    /\ \A i \in 1 .. CHUNK_SIZE :
          /\ Len(c.pixels[i]) = CHUNK_SIZE
          /\ \A k \in 1 .. CHUNK_SIZE :
                c.pixels[i][k].x = i - 1 /\ c.pixels[i][k].y = k - 1

(***************************************************************************)
(* C1.  get_chunk(x, y) on a chunk coordinate that is already stored (in   *)
(* any reachable state, sorted or not) generates nothing, adds no row and  *)
(* no chunk, and returns a chunk with that coordinate.                     *)
(***************************************************************************)
C1_GetChunkIdempotent ==
    \A x \in ChunkXs, y \in ChunkYs :
        Stored(world, x, y) =>
            LET g == get_chunk(world, x, y)
            IN  /\ g.world = world
                /\ g.world.chunks[g.row + 1][g.col + 1].x = x * 16
                /\ g.world.chunks[g.row + 1][g.col + 1].y = y * 16

(***************************************************************************)
(* C2.  Right after set_pixel(x, y, p), get_pixel(x, y) returns a pixel    *)
(* with the material and colour of p.                                      *)
(***************************************************************************)
C2_SetThenGet ==
    last.op = "set_pixel" =>
        LET r == World_get_pixel(world, last.x, last.y)
        IN  r.ok /\ SameLook(r.pixel, last.pixel)

(***************************************************************************)
(* C3.  After set_pixel(x, y, p) with p at local (x mod 16, y mod 16),     *)
(* get_pixel(x, y) returns p's material and colour in every later state up *)
(* to the next set_pixel on (x, y), whatever calls come in between.        *)
(***************************************************************************)
C3_WrittenStays ==
    \A w \in Points :
        written[w] # NoPixel =>
            LET r == World_get_pixel(world, w[1], w[2])
            IN  r.ok /\ SameLook(r.pixel, written[w])

(***************************************************************************)
(* C4.  When chunk (floor(x/16), floor(y/16)) is not stored, get_pixel(x,  *)
(* y) generates exactly one chunk, that one, appended to an existing row   *)
(* or alone in a new last row, and returns its cell at local (x mod 16,    *)
(* y mod 16).                                                              *)
(***************************************************************************)
C4_MissGeneratesOne ==
    \A w \in Points :
        LET cx == w[1] \div 16
            cy == w[2] \div 16
            lx == w[1] % 16
            ly == w[2] % 16
            r == World_get_pixel(world, w[1], w[2])
            new == r.world.chunks[r.row + 1][r.col + 1]
        IN  ~Stored(world, cx, cy) =>
                /\ r.ok
                /\ NumChunks(r.world) = NumChunks(world) + 1
                /\ new.x = cx * 16 /\ new.y = cy * 16
                /\ r.world.chunks =
                       IF r.row < Len(world.chunks)
                       THEN [world.chunks EXCEPT ![r.row + 1] = Append(@, new)]
                       ELSE Append(world.chunks, <<new>>)
                /\ r.pixel = new.pixels[lx + 1][ly + 1]
                /\ r.pixel.x = lx /\ r.pixel.y = ly

\* get_pixel(20, 5) has just generated chunk (1, 0), next to chunks stored
\* before, and returned its local cell (4, 5)
C4_Witness ==
    /\ last.op = "get_pixel" /\ last.x = 20 /\ last.y = 5
    /\ last.gen = 1 /\ last.ok
    /\ last.pixel.x = 4 /\ last.pixel.y = 5
    /\ NumChunks(world) >= 2
    /\ world.chunks[last.row + 1][last.col + 1].x = 16
    /\ world.chunks[last.row + 1][last.col + 1].y = 0

(***************************************************************************)
(* C5.  set_pixel(x, y, p) changes the one cell (p.x, p.y) of the chunk it *)
(* addresses and nothing else: every chunk stored before stays where it    *)
(* is, every other chunk is unchanged, and in the addressed chunk (as      *)
(* stored before, or as generated when the call generated it) every other  *)
(* cell keeps its coordinates, material and colour.                        *)
(***************************************************************************)
C5_SetPixelFrame ==
    \A w \in Points, m \in PixelMaterial, c \in SpellColors :
        \A pixel \in {SpellPixel(w[1], w[2], m, c)} :
        \A s \in {World_set_pixel(world, w[1], w[2], pixel)} :
        \A target \in {<<s.row + 1, s.col + 1>>} :
            /\ Positions(world) \subseteq Positions(s.world)
            /\ Positions(s.world) \subseteq Positions(world) \cup {target}
            /\ \A p \in Positions(s.world) :
                  LET new == s.world.chunks[p[1]][p[2]]
                      old == IF p \in Positions(world)
                             THEN world.chunks[p[1]][p[2]]
                             ELSE Generate(w[1] \div 16, w[2] \div 16, world.seed)
                  IN  IF p # target
                      THEN new = old
                      ELSE /\ new.x = old.x /\ new.y = old.y
                           /\ DOMAIN new.pixels = DOMAIN old.pixels
                           /\ \A i \in DOMAIN old.pixels :
                                 IF i # pixel.x + 1
                                 THEN new.pixels[i] = old.pixels[i]
                                 ELSE /\ Len(new.pixels[i]) = Len(old.pixels[i])
                                      /\ \A k \in 1 .. Len(old.pixels[i]) :
                                            new.pixels[i][k] # old.pixels[i][k] =>
                                                /\ old.pixels[i][k].x = pixel.x
                                                /\ old.pixels[i][k].y = pixel.y
                                                /\ new.pixels[i][k] = pixel

\* set_pixel has just overwritten a cell of a chunk that was stored before
C5_Witness ==
    /\ last.op = "set_pixel" /\ last.gen = 0
    /\ NumChunks(world) >= 2
    /\ LET c == world.chunks[last.row + 1][last.col + 1]
       IN  /\ c.pixels[last.pixel.x + 1][last.pixel.y + 1] = last.pixel
           /\ c # Generate(c.x \div 16, c.y \div 16, world.seed)

(***************************************************************************)
(* C6 (as claimed).  After any sequence of Chunk.add_pixel and             *)
(* Chunk.set_pixel calls every column is strictly ascending by y.          *)
(***************************************************************************)
C6_StrictColumns ==
    \A i \in DOMAIN chunk.pixels : StrictlyAscending(chunk.pixels[i])

(***************************************************************************)
(* C6 (amended).  After any sequence of Chunk.add_pixel and                *)
(* Chunk.set_pixel calls every column is ascending by y; a call leaves the *)
(* columns strictly ascending unless it is an add_pixel of a pixel whose y *)
(* its column already holds.                                               *)
(***************************************************************************)
AddsPresentY ==
    /\ last'.op = "Chunk::add_pixel"
    /\ \E k \in 1 .. Len(chunk.pixels[last'.pixel.x + 1]) :
          chunk.pixels[last'.pixel.x + 1][k].y = last'.pixel.y

C6_SortedColumns ==
    [][ /\ \A i \in DOMAIN chunk'.pixels : Ascending(chunk'.pixels[i])
        /\ (C6_StrictColumns /\ ~AddsPresentY) =>
               \A i \in DOMAIN chunk'.pixels : StrictlyAscending(chunk'.pixels[i])
      ]_vars

\* add_pixel has just put a pixel with y = 3 before the pixel with y = 7
C6_Witness ==
    /\ last.op = "Chunk::add_pixel" /\ last.pixel.y = 3
    /\ Len(chunk.pixels[last.pixel.x + 1]) = 2
    /\ chunk.pixels[last.pixel.x + 1][1] = last.pixel
    /\ chunk.pixels[last.pixel.x + 1][2].y = 7

(***************************************************************************)
(* C7.  Every stored chunk has exactly 16 columns of exactly 16 pixels,    *)
(* one for each local (x, y), the pixel (x, y) in column x.                *)
(***************************************************************************)
C7_ChunksComplete ==
    \A p \in Positions(world) : Complete(world.chunks[p[1]][p[2]])

\* three complete chunks, one of them written by the set_pixel just made
C7_Witness ==
    /\ last.op = "set_pixel"
    /\ NumChunks(world) = 3
    /\ \E p \in Positions(world) :
          world.chunks[p[1]][p[2]].pixels[last.pixel.x + 1][last.pixel.y + 1].color
              \in SpellColors

(***************************************************************************)
(* C8.  On a column ascending by y, Chunk.get_pixel(x, y) is Ok with a     *)
(* pixel of column x whose y is the queried y when there is one, and       *)
(* otherwise Err(i) with every pixel before index i below y and every      *)
(* pixel from index i on above y.                                          *)
(***************************************************************************)
C8_GetPixelResult ==
    \A x \in 0 .. CHUNK_SIZE - 1, y \in 0 .. CHUNK_SIZE - 1 :
        LET column == chunk.pixels[x + 1]
            r == Chunk_get_pixel(chunk, x, y)
        IN  Ascending(column) =>
                IF \E k \in 1 .. Len(column) : column[k].y = y
                THEN /\ r.ok
                     /\ r.i \in 0 .. Len(column) - 1
                     /\ r.pixel = column[r.i + 1]
                     /\ r.pixel.y = y
                ELSE /\ ~r.ok
                     /\ r.i \in 0 .. Len(column)
                     /\ \A k \in 1 .. Len(column) :
                           /\ k <= r.i => column[k].y < y
                           /\ k > r.i => column[k].y > y

\* get_pixel(x, 5) on a column holding y = 3 and y = 7 has returned Err(1)
C8_Witness ==
    /\ last.op = "Chunk::get_pixel" /\ ~last.ok
    /\ last.y = 5 /\ last.col = 1
    /\ Len(chunk.pixels[last.x + 1]) = 2

(***************************************************************************)
(* C9.  Whenever modified is false, get_chunk(x, y) on a chunk coordinate  *)
(* that is stored returns a stored chunk with keys (x*16, y*16) and        *)
(* neither generates a chunk nor adds a row.                               *)
(***************************************************************************)
C9_SortedHit ==
    ~world.modified =>
        \A x \in ChunkXs, y \in ChunkYs :
            Stored(world, x, y) =>
                LET g == get_chunk(world, x, y)
                IN  /\ g.world.chunks = world.chunks
                    /\ g.world.chunks[g.row + 1][g.col + 1].x = x * 16
                    /\ g.world.chunks[g.row + 1][g.col + 1].y = y * 16

(***************************************************************************)
(* C10.  sort_chunks leaves the rows ascending by row[0].y, every row      *)
(* ascending by chunk x, the same chunks with the same contents as many    *)
(* times as before, and modified false.                                    *)
(***************************************************************************)
C10_SortChunks ==
    LET s == sort_chunks(world)
    IN  /\ \A i \in 1 .. Len(s.chunks) - 1 :
              s.chunks[i][1].y <= s.chunks[i + 1][1].y
        /\ \A i \in 1 .. Len(s.chunks) :
              \A j \in 1 .. Len(s.chunks[i]) - 1 :
                  s.chunks[i][j].x <= s.chunks[i][j + 1].x
        /\ \A c \in ChunkValues(world) \cup ChunkValues(s) :
              Copies(s, c) = Copies(world, c)
        /\ s.modified = FALSE
        /\ s.seed = world.seed

\* sort_chunks has just reordered three chunks in two or more rows
C10_Witness ==
    /\ last.op = "sort_chunks" /\ last.moved
    /\ NumChunks(world) = 3
    /\ Len(world.chunks) >= 2
    /\ ~world.modified

(***************************************************************************)
(* C11.  modified is false in a new World; every call that appends a chunk *)
(* (a get_chunk miss, generate_chunk) leaves it true; a call that appends  *)
(* nothing and is not sort_chunks (a get_chunk hit) leaves it as it was;   *)
(* sort_chunks leaves it false, and nothing else turns it from true to     *)
(* false.  So modified is true exactly when a chunk has been appended      *)
(* since the last sort_chunks or since World::new.                         *)
(***************************************************************************)
C11_ModifiedFlag ==
    /\ ~world.modified
    /\ [][ /\ NumChunks(world') > NumChunks(world) => world'.modified
           /\ last'.op = "sort_chunks" => ~world'.modified
           /\ (NumChunks(world') = NumChunks(world) /\ last'.op # "sort_chunks") =>
                  world'.modified = world.modified
           /\ (world.modified /\ ~world'.modified) => last'.op = "sort_chunks"
         ]_vars

\* a get_chunk hit after a sort_chunks and a later generate_chunk: the flag
\* set by generate_chunk is still set
C11_Witness ==
    /\ last.op = "get_chunk" /\ last.gen = 0
    /\ world.modified
    /\ NumChunks(world) = 3

(***************************************************************************)
(* C12.  After any sequence of get_pixel, set_pixel and sort_chunks calls  *)
(* (and get_chunk calls), get_pixel returns a pixel for every coordinate   *)
(* and never reaches its panic; this stays so after a set_pixel whose      *)
(* pixel carries a local coordinate in [0, 16) other than that of the      *)
(* world coordinate it is called with.                                     *)
(***************************************************************************)
C12_NoPanic ==
    /\ \A w \in ProbePoints : World_get_pixel(world, w[1], w[2]).ok
    /\ \A w \in Points :
          \A s \in {World_set_pixel(world, w[1], w[2],
                                    Pixel(15, 0, "BLOCK", Color(255, 0, 0, 255)))} :
              /\ World_get_pixel(s.world, w[1], w[2]).ok
              /\ World_get_pixel(s.world, w[1] - (w[1] % 16) + 15, w[2] - (w[2] % 16)).ok

\* get_pixel has just returned the pixel of a coordinate written by set_pixel,
\* from a World of three chunks that sort_chunks has sorted since
C12_Witness ==
    /\ last.op = "get_pixel" /\ last.ok /\ last.gen = 0
    /\ written[<<last.x, last.y>>] # NoPixel
    /\ SameLook(last.pixel, written[<<last.x, last.y>>])
    /\ ~world.modified
    /\ NumChunks(world) = 3

(***************************************************************************)
(* C13.  When the chunk World.get_pixel(x, y) selects holds no cell with   *)
(* the local coordinate (x mod 16, y mod 16), get_pixel panics and returns *)
(* nothing; whenever it does return, the pixel is one the chunk stores in  *)
(* column x mod 16 with y mod 16, never a default.                         *)
(***************************************************************************)
C13_PanicOnMissingCell ==
    \A x \in 0 .. CHUNK_SIZE - 1, y \in 0 .. CHUNK_SIZE - 1 :
        LET column == chunk.pixels[x + 1]
            r == World_get_pixel(WorldOf(chunk), x, y)
        IN  /\ (~\E k \in 1 .. Len(column) : column[k].y = y) => ~r.ok
            /\ r.ok => \E k \in 1 .. Len(column) :
                           column[k] = r.pixel /\ r.pixel.y = y

\* World::get_pixel has just panicked on a chunk that holds other cells of the
\* column but not the one asked for
C13_Witness ==
    /\ last.op = "get_pixel" /\ ~last.ok
    /\ Len(chunk.pixels[last.x + 1]) >= 1
    /\ \A k \in 1 .. Len(chunk.pixels[last.x + 1]) :
          chunk.pixels[last.x + 1][k].y # last.y

(***************************************************************************)
(* C14.  No stored row is ever empty, so the row search of get_chunk can   *)
(* read row[0] of every row; get_chunk(x, y) returns a stored chunk for    *)
(* every chunk coordinate, leaves no row empty, stores at most one chunk   *)
(* more, and on a miss the chunk returned is the chunk generated for       *)
(* (x, y), stored last in its row.                                         *)
(***************************************************************************)
C14_GetChunkSucceeds ==
    /\ \A i \in 1 .. Len(world.chunks) : Len(world.chunks[i]) >= 1
    /\ \A x \in ChunkXs, y \in ChunkYs :
          \A g \in {get_chunk(world, x, y)} :
              /\ g.row + 1 \in 1 .. Len(g.world.chunks)
              /\ g.col + 1 \in 1 .. Len(g.world.chunks[g.row + 1])
              /\ \A i \in 1 .. Len(g.world.chunks) : Len(g.world.chunks[i]) >= 1
              /\ g.world.chunks[g.row + 1][g.col + 1].x = x * 16
              /\ NumChunks(g.world) \in {NumChunks(world), NumChunks(world) + 1}
              /\ NumChunks(g.world) = NumChunks(world) + 1 =>
                    /\ g.world.chunks[g.row + 1][g.col + 1] = Generate(x, y, world.seed)
                    /\ g.col + 1 = Len(g.world.chunks[g.row + 1])

\* a get_chunk miss has just pushed a new last row, behind the rows stored
\* before, and stored its chunk there
C14_Witness ==
    /\ last.op = "get_chunk" /\ last.gen = 1
    /\ Len(world.chunks) >= 2
    /\ last.row + 1 = Len(world.chunks)
    /\ Len(world.chunks[last.row + 1]) = 1
    /\ world.chunks[last.row + 1][1].x = last.x * 16
    /\ world.chunks[last.row + 1][1].y = last.y * 16

(***************************************************************************)
(* C15.  For every signed world coordinate (x, y), get_pixel returns a     *)
(* pixel p of a chunk c with c.x = 16 * floor(x / 16), c.y = 16 *          *)
(* floor(y / 16), p.x = x - c.x and p.y = y - c.y: the chunk's world       *)
(* coordinate plus the pixel's local coordinate is (x, y), for negative    *)
(* coordinates as well.                                                    *)
(***************************************************************************)
C15_FloorAddressing ==
    \A w \in ProbePoints :
        \A r \in {World_get_pixel(world, w[1], w[2])} :
            LET c == r.world.chunks[r.row + 1][r.col + 1]
                fx == (w[1] - (w[1] % 16)) \div 16
                fy == (w[2] - (w[2] % 16)) \div 16
            IN  /\ r.ok
                /\ c.x = 16 * fx /\ c.y = 16 * fy
                /\ r.pixel.x = w[1] - 16 * fx /\ r.pixel.y = w[2] - 16 * fy
                /\ r.pixel.x \in 0 .. 15 /\ r.pixel.y \in 0 .. 15
                /\ c.x + r.pixel.x = w[1] /\ c.y + r.pixel.y = w[2]
                /\ c.pixels[r.pixel.x + 1][r.pixel.y + 1] = r.pixel

\* get_pixel(-12, -11) has just returned the cell (4, 5) of the chunk at world
\* coordinate (-16, -16)
C15_Witness ==
    /\ last.op = "get_pixel" /\ last.ok
    /\ last.x = -12 /\ last.y = -11
    /\ last.pixel.x = 4 /\ last.pixel.y = 5
    /\ world.chunks[last.row + 1][last.col + 1].x = -16
    /\ world.chunks[last.row + 1][last.col + 1].y = -16

(***************************************************************************)
(* C16.  A second World with the same seed, taken through another call     *)
(* sequence: none, one get_chunk, or get_chunk and get_pixel calls in      *)
(* another order followed by sort_chunks.                                  *)
(***************************************************************************)
OtherWorlds(seed) ==
    LET new == World_new(seed)
        far == get_chunk(get_chunk(new, 1, 0).world, -1, -1).world
        probed == World_get_pixel(World_get_pixel(far, 20, -11).world, -12, 5).world
    IN  {new} \cup {get_chunk(new, x, y).world : x \in ChunkXs, y \in ChunkYs}
              \cup {far, sort_chunks(far), probed, sort_chunks(probed)}

\* no set_pixel has been made on the World
NoSetPixel == \A w \in Points : written[w] = NoPixel

(***************************************************************************)
(* C16.  As long as no set_pixel was made, get_pixel returns, for every    *)
(* world coordinate, a pixel with the material and colour that every       *)
(* second World with the same seed returns for it, whatever get_pixel,     *)
(* get_chunk and sort_chunks calls the two Worlds have executed.           *)
(***************************************************************************)
C16_SameSeedSamePixels ==
    NoSetPixel =>
        \A others \in {OtherWorlds(world.seed)} :
        \A w \in ProbePoints :
            \A r \in {World_get_pixel(world, w[1], w[2])} :
                /\ r.ok
                /\ \A o \in others :
                      \A q \in {World_get_pixel(o, w[1], w[2])} :
                          q.ok /\ SameLook(q.pixel, r.pixel)

\* get_pixel has just returned a pixel from a World that has generated three
\* chunks in unsorted order and sorted them, no set_pixel made
C16_Witness ==
    /\ last.op = "get_pixel" /\ last.ok /\ last.gen = 0
    /\ NoSetPixel
    /\ NumChunks(world) = 3
    /\ ~world.modified
    /\ world.chunks \notin {o.chunks : o \in OtherWorlds(world.seed)}

(***************************************************************************)
(* C17.  The end of a frame, whatever calls the frame made before it,      *)
(* leaves modified false, the row list ascending by r[0].y and every row   *)
(* ascending by chunk x: it runs sort_chunks when a chunk was generated    *)
(* since the last sort, and when it does not (modified is false) the lists *)
(* are sorted already.                                                     *)
(***************************************************************************)
C17_FrameEndSorted ==
    /\ last.op = "end_frame" => ~world.modified /\ Sorted(world)
    /\ \A e \in {frame_end(world)} :
          /\ ~e.modified /\ Sorted(e)
          /\ world.modified => e = sort_chunks(world)
          /\ ~world.modified => e = world

\* a frame that generated chunks out of order has just ended with the sort
C17_Witness ==
    /\ last.op = "end_frame" /\ last.moved
    /\ NumChunks(world) = 3
    /\ Len(world.chunks) >= 2

(***************************************************************************)
(* C18.  For a camera with target + offset = (0, 0) and a screen extent    *)
(* (w, h) >= 0, get_visible_chunks returns an x range and a y range that   *)
(* contain 0, with 2 + floor(w / (16 * SCALE)) chunk x coordinates and     *)
(* 4 + floor(h / (16 * SCALE)) chunk y coordinates: one more on an axis    *)
(* for every 16 * SCALE screen units more on it.                           *)
(***************************************************************************)
C18_VisibleRange ==
    (last.op = "get_visible_chunks"
         /\ Vector2Add(last.camera.target, last.camera.offset) = <<0, 0>>) =>
        LET w == F32AsI64(last.screendims[1])
            h == F32AsI64(last.screendims[2])
            v == last.visible
            wider == get_visible_chunks(last.camera, <<I64AsF32(w + 16 * SCALE),
                                                       I64AsF32(h + 16 * SCALE)>>)
        IN  /\ 0 \in RangeSet(v[1]) /\ 0 \in RangeSet(v[2])
            /\ Cardinality(RangeSet(v[1])) = 2 + w \div (16 * SCALE)
            /\ Cardinality(RangeSet(v[2])) = 4 + h \div (16 * SCALE)
            /\ Cardinality(RangeSet(wider[1])) = Cardinality(RangeSet(v[1])) + 1
            /\ Cardinality(RangeSet(wider[2])) = Cardinality(RangeSet(v[2])) + 1

\* get_visible_chunks for a camera whose target (-32, -32) and offset (32, 32)
\* add up to the origin and a screen of 130 x 64 has returned the x range
\* -3..1 and the y range -3..2
C18_Witness ==
    /\ last.op = "get_visible_chunks"
    /\ last.camera = Camera2D(<<F32(32, 1), F32(32, 1)>>, <<F32(-32, 1), F32(-32, 1)>>)
    /\ last.screendims = <<I64AsF32(130), I64AsF32(64)>>
    /\ last.visible = <<Range(-3, 1), Range(-3, 2)>>

(***************************************************************************)
(* C19.  For every signed target coordinate v the local coordinate that    *)
(* activate_spell computes is v mod 16 (floor modulus), in [0, 16), never  *)
(* the panic arm, and 16 * (v >> 4) plus it is v; the Pixel a set_pixel of *)
(* activate_spell has passed lies, with these coordinates, in the chunk    *)
(* (x >> 4, y >> 4) that set_pixel selected.                               *)
(***************************************************************************)
C19_SpellLocal ==
    /\ \A v \in SpellTargets :
          /\ spell_local(v) \in 0 .. CHUNK_SIZE - 1
          /\ spell_local(v) = v % 16
          /\ 16 * Shr4(v) + spell_local(v) = v
    /\ last.op = "set_pixel" =>
          LET c == world.chunks[last.row + 1][last.col + 1]
          IN  /\ last.pixel.x = last.x % 16 /\ last.pixel.y = last.y % 16
              /\ c.x = 16 * Shr4(last.x) /\ c.y = 16 * Shr4(last.y)
              /\ c.x + last.pixel.x = last.x /\ c.y + last.pixel.y = last.y
              /\ c.pixels[last.pixel.x + 1][last.pixel.y + 1] = last.pixel

\* activate_spell aimed at (-12, -11) has just written the cell (4, 5) of the
\* chunk at world coordinate (-16, -16)
C19_Witness ==
    /\ last.op = "set_pixel"
    /\ last.x = -12 /\ last.y = -11
    /\ last.pixel.x = 4 /\ last.pixel.y = 5
    /\ world.chunks[last.row + 1][last.col + 1].x = -16
    /\ world.chunks[last.row + 1][last.col + 1].y = -16
    /\ world.chunks[last.row + 1][last.col + 1].pixels[5][6] = last.pixel

(***************************************************************************)
(* C20.  Right after generate_chunk(cx, cy), and after a sort_chunks       *)
(* following it, get_chunk(cx, cy) generates nothing and returns the chunk *)
(* generate_chunk stored; and after generate_chunk(cx, cy) the World       *)
(* stores one chunk for (cx, cy), in the one row that holds the chunks     *)
(* with that y.                                                            *)
(***************************************************************************)
C20_GenerateThenGet ==
    last.op = "generate_chunk" =>
        LET stored == world.chunks[last.row + 1][last.col + 1]
            g == get_chunk(world, last.x, last.y)
            s == sort_chunks(world)
            gs == get_chunk(s, last.x, last.y)
        IN  /\ g.world = world
            /\ g.world.chunks[g.row + 1][g.col + 1] = stored
            /\ gs.world = s
            /\ gs.world.chunks[gs.row + 1][gs.col + 1] = stored
            /\ Cardinality({p \in Positions(world) :
                   /\ world.chunks[p[1]][p[2]].x = last.x * 16
                   /\ world.chunks[p[1]][p[2]].y = last.y * 16}) = 1
            /\ \A p \in Positions(world) :
                   world.chunks[p[1]][p[2]].y = last.y * 16 => p[1] = last.row + 1

(***************************************************************************)
(* C21.  In every reachable state all chunks of a row carry the y key of   *)
(* the row's first chunk, no two rows carry the same y key and no two      *)
(* chunks of a row the same x key: at most one chunk is stored for a chunk *)
(* coordinate.                                                             *)
(***************************************************************************)
C21_IndexWellFormed ==
    /\ \A i \in 1 .. Len(world.chunks) :
          \A j \in 1 .. Len(world.chunks[i]) :
              world.chunks[i][j].y = world.chunks[i][1].y
    /\ \A i, k \in 1 .. Len(world.chunks) :
          i # k => world.chunks[i][1].y # world.chunks[k][1].y
    /\ \A i \in 1 .. Len(world.chunks) :
          \A j, k \in 1 .. Len(world.chunks[i]) :
              j # k => world.chunks[i][j].x # world.chunks[i][k].x

\* the World after the World::set_pixel calls of `calls`, in order
RECURSIVE AfterSetPixels(_, _)
AfterSetPixels(w, calls) ==
    IF calls = <<>> THEN w
    ELSE AfterSetPixels(World_set_pixel(w, Head(calls)[1], Head(calls)[2],
                                        Head(calls)[3]).world, Tail(calls))

(***************************************************************************)
(* C23.  activate_spell with mp < spell.cost leaves the Player (mp and hp  *)
(* included) and the World as they were and calls nothing; with            *)
(* mp >= spell.cost it leaves mp lower by spell.cost (the f32 subtraction  *)
(* of the source, which is exact: mp plus the cost is the mp before) and   *)
(* makes one World.set_pixel call for each SetPixel component, in          *)
(* order, at the player position plus the component's offset, and no       *)
(* other: the World is the one these calls leave.                          *)
(***************************************************************************)
C23_ActivateSpell ==
    last.op = "activate_spell" =>
        LET b == last.before
            sp == last.spell
            setpixels == SelectSeq(sp.components, LAMBDA c : c.type = "SetPixel")
        IN  IF b.player.mp < sp.cost
            THEN /\ player = b.player
                 /\ world = b.world
                 /\ last.calls = <<>>
            ELSE /\ player.mp = F32Sub(b.player.mp, sp.cost)
                 /\ F32Add(player.mp, sp.cost) = b.player.mp
                 /\ Len(last.calls) = Len(setpixels)
                 /\ \A k \in 1 .. Len(setpixels) :
                       LET x == F32AsI64(b.player.position[1]) + setpixels[k].x_rel
                           y == F32AsI64(b.player.position[2]) + setpixels[k].y_rel
                       IN  last.calls[k] =
                               <<x, y, Pixel(x % 16, y % 16, setpixels[k].material,
                                             setpixels[k].color)>>
                 /\ world = AfterSetPixels(b.world, last.calls)

\* a cast refused for lack of mp, after casts that were paid for and wrote
\* pixels: the spell has a cost above the mp left and nothing was called
C23_Witness ==
    /\ last.op = "activate_spell"
    /\ last.before.player.mp < last.spell.cost
    /\ last.calls = <<>>
    /\ Len(last.spell.components) = 3
    /\ player.mp > 0
    /\ written[<<4, 5>>] # NoPixel /\ written[<<-12, -11>>] # NoPixel
    /\ NumChunks(world) >= 2

====
